---- MODULE Spec2Model ----
(***************************************************************************)
(* NetworkRequestHandler (src/network_request_handler.py): a handler that  *)
(* owns a requests.Session and a ThreadPoolExecutor, and the threads that  *)
(* call fetch, fetch_all and shutdown on one instance.                     *)
(***************************************************************************)
EXTENDS Integers, Sequences, FiniteSets, TLC

\* ------------------------------------------------------------------ bounds
MaxWorkers == 2       \* largest max_workers argument tried
MinWorkers == 1       \* smallest max_workers argument tried is -MinWorkers
MaxUrls == 2          \* longest urls list given to fetch_all
MaxRequests == 3      \* futures created over one run
MaxCalls == 3         \* calls of fetch, fetch_all and shutdown over one run
MaxRc == 2            \* largest exit status of the aider process tried
TickSeconds == 100    \* step of the clock while the aider process runs

Callers == {"t1", "t2"}          \* threads that call the handler's methods
URLS == {"A", "B"}               \* the URLs the callers pass

\* What session.get does for one request: it returns a response with a
\* status code, or raises a requests.RequestException (exc # "").
Outcomes ==
    {[exc |-> "", status |-> s] : s \in {200, 304, 404}}
        \cup {[exc |-> e, status |-> 0] : e \in {"ConnectionError", "Timeout"}}

Unset == [exc |-> "unset", status |-> 0]     \* a future that has no result yet

None == [isNone |-> TRUE, url |-> "", status |-> 0]

\* response.text: the body the transport returned for this URL and status.
Text(url, status) == [isNone |-> FALSE, url |-> url, status |-> status]

\* All sequences over S of length at most n.
SeqsUpTo(S, n) == UNION {[1..k -> S] : k \in 0..n}

RECURSIVE SeqToSet(_)
SeqToSet(s) == IF s = <<>> THEN {} ELSE {Head(s)} \cup SeqToSet(Tail(s))

VARIABLES
    max_workers,    \* self.max_workers
    constructed,    \* __init__ returned an instance
    sessionOpen,    \* self.session has not been closed
    closeCount,     \* calls of self.session.close()
    shutdownFlag,   \* self.executor._shutdown
    queue,          \* the executor's work queue: futures waiting for a worker
    running,        \* futures whose session.get is executing in a worker
    reqs,           \* every future created: url, state, outcome, runs
    finished,       \* the futures of each call that are done, in completion order
    pc,             \* each caller's position
    op,             \* the method each caller is in
    urls,           \* fetch_all's urls argument
    futures,        \* the futures the call got from submit, in that order
    pending,        \* futures as_completed has not yielded yet
    results,        \* fetch_all's results list
    collected,      \* the futures behind results, in the order appended
    diag,           \* URLs of the "Failed to fetch" lines printed by the call
    raised,         \* the error the call ends with, "" if none
    afterShutdown,  \* the call began after a shutdown() call had returned
    liveAtCall,     \* the call began on a pool that was not shut down
    shutdownCalled, \* a caller has called shutdown()
    shutdownDone,   \* a shutdown() call has returned
    calls,          \* calls made so far
    orch            \* the run of scripts/agent_orchestrator.py

vars == <<max_workers, constructed, sessionOpen, closeCount, shutdownFlag,
          queue, running, reqs, finished, pc, op, urls, futures, pending, results,
          collected, diag, raised, afterShutdown, liveAtCall,
          shutdownCalled, shutdownDone, calls, orch>>

callVars == <<urls, futures, pending, results, collected, diag>>
histVars == <<shutdownCalled, shutdownDone>>
atCall == <<afterShutdown, liveAtCall>>
sessVars == <<sessionOpen, closeCount>>
initVars == <<max_workers, constructed, orch>>   \* no method changes these
handlerVars == <<max_workers, constructed, sessionOpen, closeCount,
                 shutdownFlag, queue, running, reqs, finished, pc, op, urls,
                 futures, pending, results, collected, diag, raised,
                 afterShutdown, liveAtCall, shutdownCalled, shutdownDone, calls>>

\* ------------------------------------------------------------ construction
\* Mutant of Accepts: zero workers are accepted.
AcceptsZero(n) == n >= 0

\* ThreadPoolExecutor(max_workers=n) raises ValueError for n <= 0.
Accepts(n) == n > 0

\* The orchestrator script before it is started, and when it is not run.
NotRun(title, body) ==
    [pc |-> "start", title |-> title, body |-> body, launched |-> 0,
     elapsed |-> 0, childRc |-> 0 - 1, success |-> FALSE, exitStatus |-> 0 - 1]

\* __init__ produces an instance unless the executor's constructor raises.
HandlerInit ==
    /\ max_workers \in (0 - MinWorkers)..MaxWorkers
    /\ constructed = Accepts(max_workers)
    /\ sessionOpen = TRUE
    /\ closeCount = 0
    /\ shutdownFlag = FALSE
    /\ queue = <<>>
    /\ running = {}
    /\ reqs = <<>>
    /\ finished = [c \in Callers |-> <<>>]
    /\ pc = [c \in Callers |-> "idle"]
    /\ op = [c \in Callers |-> ""]
    /\ urls = [c \in Callers |-> <<>>]
    /\ futures = [c \in Callers |-> <<>>]
    /\ pending = [c \in Callers |-> {}]
    /\ results = [c \in Callers |-> <<>>]
    /\ collected = [c \in Callers |-> <<>>]
    /\ diag = [c \in Callers |-> <<>>]
    /\ raised = [c \in Callers |-> ""]
    /\ afterShutdown = [c \in Callers |-> FALSE]
    /\ liveAtCall = [c \in Callers |-> FALSE]
    /\ shutdownCalled = FALSE
    /\ shutdownDone = FALSE
    /\ calls = 0

\* The handler's module run on its own: the script is not started.
Init ==
    /\ orch = NotRun("", "")
    /\ HandlerInit

\* ------------------------------------------------------------- the executor
\* Future.done(): the work item has run and the future holds its result.
Resolved(r) == reqs[r].state = "done"

\* The executor's threads have all exited: they exit once _shutdown is set
\* and the work queue is drained, so every accepted future is resolved.
PoolDrained == \A r \in 1..Len(reqs) : Resolved(r)

\* executor.submit(self.session.get, url, timeout=timeout) on a pool that
\* accepts it: a new future, queued behind the ones already waiting.
NewFuture(url) ==
    [url |-> url, state |-> "queued", outcome |-> Unset, runs |-> 0]

\* A future no caller holds any more: its URL and result are garbage.
Released(f) == [f EXCEPT !.url = "", !.outcome = Unset]

\* Mutant of WorkerFree: the pool runs one thread more than max_workers.
WorkerFreeOneMore == Cardinality(running) <= max_workers

\* A worker thread is free to take the next work item.
WorkerFree == Cardinality(running) < max_workers

\* A worker takes the oldest queued work item and calls session.get.
WorkerStart ==
    /\ queue # <<>>
    /\ WorkerFree
    /\ LET r == Head(queue) IN
        /\ queue' = Tail(queue)
        /\ running' = running \cup {r}
        /\ reqs' = [reqs EXCEPT ![r].state = "running", ![r].runs = @ + 1]
    /\ UNCHANGED <<initVars, sessVars, shutdownFlag, pc, op, callVars, raised,
                   atCall, histVars, calls,
                   finished>>

\* session.get returns or raises in the worker; the future takes the result,
\* which is kept for as long as a caller holds the future.
WorkerFinish ==
    /\ \E r \in running, o \in Outcomes :
        /\ running' = running \ {r}
        /\ LET f == [reqs[r] EXCEPT !.state = "done", !.outcome = o]
               held == \E c \in Callers : r \in SeqToSet(futures[c])
           IN  /\ reqs' = [reqs EXCEPT ![r] = IF held THEN f ELSE Released(f)]
               /\ finished' = [c \in Callers |->
                                 IF r \in SeqToSet(futures[c])
                                 THEN Append(finished[c], r) ELSE finished[c]]
    /\ UNCHANGED <<initVars, sessVars, shutdownFlag, queue, pc, op, callVars,
                   raised, atCall, histVars, calls>>

\* ------------------------------------------------------- handling a result
\* response.raise_for_status(): HTTPError for a 4xx or 5xx status only.
RaisesHTTPError(status) == 400 <= status /\ status < 600

\* What the try block raises for a future's outcome, "" if nothing:
\* future.result() re-raises what session.get raised, and raise_for_status
\* raises HTTPError.
Raises(o) ==
    IF o.exc # "" THEN o.exc
    ELSE IF RaisesHTTPError(o.status) THEN "HTTPError" ELSE ""

\* Mutant of Caught: `except requests.HTTPError`, which lets connection
\* errors and timeouts through.
CaughtHTTPErrorOnly(e) == e = "HTTPError"

\* `except requests.RequestException`: the errors the handler catches.
Caught(e) == e \in {"ConnectionError", "Timeout", "HTTPError"}

\* What the try/except appends for a resolved future whose error, if any,
\* is caught: response.text, or None.
ResultOf(r) ==
    IF Raises(reqs[r].outcome) # ""
    THEN None
    ELSE Text(reqs[r].url, reqs[r].outcome.status)

\* ------------------------------------------------------------------ callers
\* A caller makes its next call once its previous one has returned or raised.
CanCall(c) ==
    /\ constructed
    /\ pc[c] \in {"idle", "returned", "raised"}
    /\ calls < MaxCalls

\* The futures that one more call may create: the futures of a run are
\* bounded by MaxRequests, counting the ones a fetch_all has yet to submit.
RECURSIVE ToSubmit(_)
ToSubmit(cs) ==
    IF cs = {} THEN 0
    ELSE LET c == CHOOSE x \in cs : TRUE IN
         (IF pc[c] = "submit" THEN Len(urls[c]) - Len(futures[c]) ELSE 0)
             + ToSubmit(cs \ {c})

Room == MaxRequests - Len(reqs) - ToSubmit(Callers)

\* The futures with the new one that submit creates for url.
Submitted(url) == Append(reqs, NewFuture(url))

\* The futures once caller c has dropped the ones of its previous call.
Dropped(c, rs) ==
    [r \in 1..Len(rs) |->
        IF r \in SeqToSet(futures[c]) /\ rs[r].state = "done"
        THEN Released(rs[r]) ELSE rs[r]]

\* Mutant of EmptyResults: the list starts with an entry.
ResultsWithNone == <<None>>

\* results = []
EmptyResults == <<>>

\* The completion order without the futures of caller c's previous call.
Forgotten(c) == [finished EXCEPT ![c] = <<>>]

\* The bookkeeping of a call that begins: the locals of a new frame.
Begin(c, name, us) ==
    /\ finished' = Forgotten(c)
    /\ op' = [op EXCEPT ![c] = name]
    /\ urls' = [urls EXCEPT ![c] = us]
    /\ pending' = [pending EXCEPT ![c] = {}]
    /\ results' = [results EXCEPT ![c] = IF name = "fetch_all" THEN EmptyResults ELSE <<>>]
    /\ collected' = [collected EXCEPT ![c] = <<>>]
    /\ diag' = [diag EXCEPT ![c] = <<>>]
    /\ afterShutdown' = [afterShutdown EXCEPT ![c] = shutdownDone]
    /\ liveAtCall' = [liveAtCall EXCEPT ![c] = ~shutdownFlag]
    /\ calls' = calls + 1

\* The error the try block of fetch ends with: submit raises RuntimeError on
\* a pool that is shut down; otherwise the future is queued and the with
\* statement fails, because a Future is no context manager (TypeError;
\* AttributeError before Python 3.11).
FetchError == IF shutdownFlag THEN "RuntimeError" ELSE "TypeError"

\* fetch(url): the error of the try block is no requests.RequestException,
\* so the except clause does not apply and fetch ends raised.
fetch(c) ==
    /\ CanCall(c)
    /\ \E url \in URLS :
        /\ IF shutdownFlag
           THEN /\ reqs' = Dropped(c, reqs)
                /\ futures' = [futures EXCEPT ![c] = <<>>]
                /\ UNCHANGED queue
           ELSE /\ Room >= 1
                /\ reqs' = Dropped(c, Submitted(url))
                /\ queue' = Append(queue, Len(reqs) + 1)
                /\ futures' = [futures EXCEPT ![c] = <<Len(reqs) + 1>>]
        /\ op' = [op EXCEPT ![c] = "fetch"]
        /\ finished' = Forgotten(c)
        /\ urls' = [urls EXCEPT ![c] = <<>>]
        /\ pending' = [pending EXCEPT ![c] = {}]
        /\ collected' = [collected EXCEPT ![c] = <<>>]
        /\ afterShutdown' = [afterShutdown EXCEPT ![c] = shutdownDone]
        /\ liveAtCall' = [liveAtCall EXCEPT ![c] = ~shutdownFlag]
        /\ calls' = calls + 1
        /\ IF Caught(FetchError)
           THEN /\ results' = [results EXCEPT ![c] = <<None>>]
                /\ diag' = [diag EXCEPT ![c] = <<url>>]
                /\ raised' = [raised EXCEPT ![c] = ""]
                /\ pc' = [pc EXCEPT ![c] = "returned"]
           ELSE /\ results' = [results EXCEPT ![c] = <<>>]
                /\ diag' = [diag EXCEPT ![c] = <<>>]
                /\ raised' = [raised EXCEPT ![c] = FetchError]
                /\ pc' = [pc EXCEPT ![c] = "raised"]
    /\ UNCHANGED <<initVars, sessVars, shutdownFlag, running, histVars>>

\* fetch_all(urls): `with self.executor as executor` enters the pool (no
\* check), then the dict comprehension starts.
fetch_all(c) ==
    /\ CanCall(c)
    /\ \E us \in SeqsUpTo(URLS, MaxUrls) :
        /\ Len(us) <= Room
        /\ Begin(c, "fetch_all", us)
        /\ pc' = [pc EXCEPT ![c] = IF us = <<>> THEN "collect" ELSE "submit"]
    /\ reqs' = Dropped(c, reqs)
    /\ futures' = [futures EXCEPT ![c] = <<>>]
    /\ raised' = [raised EXCEPT ![c] = ""]
    /\ UNCHANGED <<initVars, sessVars, shutdownFlag, queue, running, histVars>>

\* One executor.submit of the dict comprehension. On a pool that is shut
\* down it raises RuntimeError: the with block is left with its locals, and
\* __exit__ calls executor.shutdown(wait=True).
Submit(c) ==
    /\ pc[c] = "submit"
    /\ IF shutdownFlag
       THEN /\ raised' = [raised EXCEPT ![c] = "RuntimeError"]
            /\ pc' = [pc EXCEPT ![c] = "join"]
            /\ urls' = [urls EXCEPT ![c] = <<>>]
            /\ pending' = [pending EXCEPT ![c] = {}]
            /\ UNCHANGED <<queue, reqs, futures>>
       ELSE /\ reqs' = Submitted(urls[c][Len(futures[c]) + 1])
            /\ queue' = Append(queue, Len(reqs) + 1)
            /\ futures' = [futures EXCEPT ![c] = Append(@, Len(reqs) + 1)]
            /\ pending' = [pending EXCEPT ![c] = @ \cup {Len(reqs) + 1}]
            /\ pc' = [pc EXCEPT ![c] =
                        IF Len(futures[c]) + 1 = Len(urls[c])
                        THEN "collect" ELSE "submit"]
            /\ UNCHANGED <<raised, urls>>
    /\ UNCHANGED <<initVars, sessVars, shutdownFlag, running, op, results,
                   collected, diag, atCall, histVars, calls,
                   finished>>

\* as_completed yields a future of the call that is done and not yet yielded.
Yields(c, r) == r \in pending[c] /\ Resolved(r)

\* Mutant of StillPending: a yielded future stays among the pending ones.
StillPendingKept(c, r) == pending[c]

\* The futures left to wait for once r has been yielded.
StillPending(c, r) == pending[c] \ {r}

\* Mutant of Appended: results.insert(0, x).
Prepended(rs, x) == <<x>> \o rs

\* results.append(x)
Appended(rs, x) == Append(rs, x)

\* Mutant of DiagUrl: the line names the URL at the position of the entry.
DiagUrlByPosition(c, r) == urls[c][Len(collected[c]) + 1]

\* url = futures[future]: the URL the yielded future was submitted with.
DiagUrl(c, r) == reqs[r].url

\* One iteration of `for future in as_completed(futures)`: the body is
\* appended, or a caught error prints one line naming futures[future] and
\* None is appended. An error the handler does not catch leaves the with
\* block: __exit__ calls executor.shutdown(wait=True).
Collect(c) ==
    /\ pc[c] = "collect"
    /\ \E r \in 1..Len(reqs) :
        /\ Yields(c, r)
        /\ LET e == Raises(reqs[r].outcome) IN
           IF e = "" \/ Caught(e)
           THEN /\ results' = [results EXCEPT ![c] = Appended(@, ResultOf(r))]
                /\ collected' = [collected EXCEPT ![c] = Append(@, r)]
                /\ diag' = [diag EXCEPT ![c] =
                              IF e = "" THEN @ ELSE Append(@, DiagUrl(c, r))]
                /\ pending' = [pending EXCEPT ![c] = StillPending(c, r)]
                /\ UNCHANGED <<pc, raised, shutdownFlag>>
           ELSE /\ raised' = [raised EXCEPT ![c] = e]
                /\ pc' = [pc EXCEPT ![c] = "join"]
                /\ shutdownFlag' = TRUE
                /\ UNCHANGED <<results, collected, diag, pending>>
    /\ UNCHANGED <<initVars, sessVars, queue, running, reqs, op, urls, futures,
                   atCall, histVars, calls,
                   finished>>

\* Mutant of Exhausted: `return results` sits inside the for loop, so the
\* call returns after the first future that completes.
ExhaustedAfterFirst(c) == pending[c] = {} \/ collected[c] # <<>>

\* as_completed has yielded every future of the call.
Exhausted(c) == pending[c] = {}

\* as_completed is exhausted; `return results` leaves the with block, whose
\* __exit__ calls executor.shutdown(wait=True): _shutdown is set.
LeaveWith(c) ==
    /\ pc[c] = "collect"
    /\ Exhausted(c)
    /\ shutdownFlag' = TRUE
    /\ pc' = [pc EXCEPT ![c] = "join"]
    /\ UNCHANGED <<initVars, sessVars, queue, running, reqs, op, callVars,
                   raised, atCall, histVars, calls,
                   finished>>

\* shutdown(wait=True) of __exit__ joins the worker threads; then fetch_all
\* returns results, or the RuntimeError of submit propagates.
Join(c) ==
    /\ pc[c] = "join"
    /\ PoolDrained
    /\ pc' = [pc EXCEPT ![c] = IF raised[c] = "" THEN "returned" ELSE "raised"]
    /\ UNCHANGED <<initVars, sessVars, shutdownFlag, queue, running, reqs, op,
                   callVars, raised, atCall, histVars, calls,
                   finished>>

\* shutdown(): self.executor.shutdown(wait=True) first sets _shutdown ...
shutdown(c) ==
    /\ CanCall(c)
    /\ Begin(c, "shutdown", <<>>)
    /\ reqs' = Dropped(c, reqs)
    /\ futures' = [futures EXCEPT ![c] = <<>>]
    /\ raised' = [raised EXCEPT ![c] = ""]
    /\ shutdownFlag' = TRUE
    /\ shutdownCalled' = TRUE
    /\ pc' = [pc EXCEPT ![c] = "sd_join"]
    /\ UNCHANGED <<initVars, sessVars, queue, running, shutdownDone>>

\* Mutant of ShutdownWait: executor.shutdown(wait=False).
ShutdownNoWait(c) ==
    /\ pc[c] = "sd_join"
    /\ pc' = [pc EXCEPT ![c] = "sd_close"]
    /\ UNCHANGED <<initVars, sessVars, shutdownFlag, queue, running, reqs, op,
                   callVars, raised, atCall, histVars, calls,
                   finished>>

\* ... then joins the worker threads ...
ShutdownWait(c) ==
    /\ pc[c] = "sd_join"
    /\ PoolDrained
    /\ pc' = [pc EXCEPT ![c] = "sd_close"]
    /\ UNCHANGED <<initVars, sessVars, shutdownFlag, queue, running, reqs, op,
                   callVars, raised, atCall, histVars, calls,
                   finished>>

\* Mutant of SessionClose: closing a session that is already closed faults.
SessionCloseOnce(c) ==
    /\ pc[c] = "sd_close"
    /\ sessionOpen' = FALSE
    /\ closeCount' = closeCount + 1
    /\ shutdownDone' = TRUE
    /\ pc' = [pc EXCEPT ![c] = IF sessionOpen THEN "returned" ELSE "raised"]
    /\ raised' = [raised EXCEPT ![c] = IF sessionOpen THEN "" ELSE "ValueError"]
    /\ UNCHANGED <<initVars, shutdownFlag, queue, running, reqs, op, callVars,
                   atCall, shutdownCalled, calls,
                   finished>>

\* ... and then self.session.close() runs and shutdown returns.
SessionClose(c) ==
    /\ pc[c] = "sd_close"
    /\ sessionOpen' = FALSE
    /\ closeCount' = closeCount + 1
    /\ shutdownDone' = TRUE
    /\ pc' = [pc EXCEPT ![c] = "returned"]
    /\ UNCHANGED <<initVars, shutdownFlag, queue, running, reqs, op, callVars,
                   raised, atCall, shutdownCalled, calls,
                   finished>>

Next ==
    \/ WorkerStart
    \/ WorkerFinish
    \/ \E c \in Callers :
        \/ fetch(c)
        \/ fetch_all(c)
        \/ Submit(c)
        \/ Collect(c)
        \/ LeaveWith(c)
        \/ Join(c)
        \/ shutdown(c)
        \/ ShutdownWait(c)
        \/ SessionClose(c)

Spec == Init /\ [][Next]_vars

\* ------------------------------------- scripts/agent_orchestrator.py
AgentTimeout == 600       \* subprocess.run(..., timeout=600)

Titles == {"", "Fix the parser"}      \* ISSUE_TITLE
Bodies == {"", "It fails on tabs"}    \* ISSUE_BODY

\* The script is started with its two environment variables; no handler is
\* constructed in its process.
OrchInit ==
    /\ HandlerInit
    /\ max_workers = 0
    /\ \E t \in Titles, b \in Bodies : orch = NotRun(t, b)

\* AiderOrchestrator.__init__: sys.exit(1) when the title is empty.
OrchConstruct ==
    /\ orch.pc = "start"
    /\ orch' = IF orch.title = ""
               THEN [orch EXCEPT !.pc = "exited", !.exitStatus = 1]
               ELSE [orch EXCEPT !.pc = "constructed"]
    /\ UNCHANGED handlerVars

\* execute_agent builds the prompt and subprocess.run starts aider ...
OrchLaunch ==
    /\ orch.pc = "constructed"
    /\ orch' = [orch EXCEPT !.pc = "waiting", !.launched = @ + 1, !.elapsed = 0]
    /\ UNCHANGED handlerVars

\* ... or the process cannot be started (no aider on PATH): the OSError is
\* not caught, and the interpreter exits with status 1.
OrchLaunchFails ==
    /\ orch.pc = "constructed"
    /\ orch' = [orch EXCEPT !.pc = "exited", !.exitStatus = 1]
    /\ UNCHANGED handlerVars

\* Time passes while aider runs.
OrchTick ==
    /\ orch.pc = "waiting"
    /\ orch.elapsed < AgentTimeout
    /\ orch' = [orch EXCEPT !.elapsed = @ + TickSeconds]
    /\ UNCHANGED handlerVars

\* aider exits before the timeout.
OrchChildExit ==
    /\ orch.pc = "waiting"
    /\ orch.elapsed < AgentTimeout
    /\ \E rc \in 0..MaxRc : orch' = [orch EXCEPT !.pc = "ran", !.childRc = rc]
    /\ UNCHANGED handlerVars

\* The timeout expires: subprocess.run kills aider and raises
\* TimeoutExpired, and execute_agent returns False.
OrchTimeout ==
    /\ orch.pc = "waiting"
    /\ orch.elapsed >= AgentTimeout
    /\ orch' = [orch EXCEPT !.pc = "agent_done", !.success = FALSE]
    /\ UNCHANGED handlerVars

\* Mutant of RunRaises: check=False, a non-zero exit status is not an error.
RunNeverRaises(rc) == FALSE

\* check=True: subprocess.run raises CalledProcessError for a non-zero exit.
RunRaises(rc) == rc # 0

\* subprocess.run returns or raises; execute_agent returns True or False.
OrchRunEnds ==
    /\ orch.pc = "ran"
    /\ orch' = [orch EXCEPT !.pc = "agent_done", !.success = ~RunRaises(orch.childRc)]
    /\ UNCHANGED handlerVars

\* __main__: sys.exit(1) unless execute_agent returned True.
OrchExit ==
    /\ orch.pc = "agent_done"
    /\ orch' = [orch EXCEPT !.pc = "exited",
                            !.exitStatus = IF orch.success THEN 0 ELSE 1]
    /\ UNCHANGED handlerVars

OrchNext ==
    \/ OrchConstruct
    \/ OrchLaunch
    \/ OrchLaunchFails
    \/ OrchTick
    \/ OrchChildExit
    \/ OrchTimeout
    \/ OrchRunEnds
    \/ OrchExit

OrchSpec == OrchInit /\ [][OrchNext]_vars

\* ------------------------------------------------------------------- claims
Futures(c) == SeqToSet(futures[c])

\* A fetch_all call that has returned its results list.
Returned(c) == op[c] = "fetch_all" /\ pc[c] = "returned"

\* The positions of results that hold the entry of future r.
EntriesOf(c, r) == {k \in 1..Len(collected[c]) : collected[c][k] = r}

\* C1: at any time at most max_workers requests execute the transport call,
\* whatever fetch and fetch_all calls submitted them; every other accepted
\* request that is not finished waits in the queue.
AtMostMaxWorkersRunning ==
    /\ constructed => Cardinality(running) <= max_workers
    /\ \A r \in 1..Len(reqs) :
        /\ reqs[r].state = "running" <=> r \in running
        /\ reqs[r].state = "queued" <=> r \in SeqToSet(queue)
        /\ reqs[r].state \in {"queued", "running", "done"}

\* C1 witness: the pool is full and a request waits behind it.
PoolFullAndQueued ==
    /\ constructed
    /\ Cardinality(running) = max_workers
    /\ queue # <<>>

\* C2: the list fetch_all returns is aligned to urls: results[i] is the
\* outcome of the request for urls[i], for every completion order.
ResultsInInputOrder ==
    \A c \in Callers :
        Returned(c) =>
            /\ Len(results[c]) = Len(urls[c])
            /\ \A i \in 1..Len(urls[c]) : results[c][i] = ResultOf(futures[c][i])

FailureIsolated(c, failed(_)) ==
    /\ raised[c] \notin {"ConnectionError", "Timeout", "HTTPError"}
    /\ \A k \in 1..Len(collected[c]) :
        LET r == collected[c][k] IN
        results[c][k] =
            IF failed(reqs[r].outcome)
            THEN None
            ELSE Text(reqs[r].url, reqs[r].outcome.status)
    /\ Returned(c) =>
        \A r \in Futures(c) : reqs[r].runs = 1 /\ EntriesOf(c, r) # {}

Non2xx(o) == o.exc # "" \/ ~(200 <= o.status /\ o.status < 300)
Status4xx5xx(o) == o.exc # "" \/ (400 <= o.status /\ o.status < 600)

ReturnIsJoin ==
    \A c \in Callers :
        Returned(c) =>
            /\ pending[c] = {}
            /\ \A r \in Futures(c) :
                /\ reqs[r].state = "done"
                /\ r \notin running
                /\ r \notin SeqToSet(queue)
                /\ EntriesOf(c, r) # {}

\* C5 witness: a batch of two has returned.
BatchOfTwoReturned ==
    \E c \in Callers : Returned(c) /\ Len(futures[c]) = 2

\* C6: fetch called on a fetcher whose pool is not shut down returns to its
\* caller and never raises.
FetchNeverRaises ==
    \A c \in Callers :
        (op[c] = "fetch" /\ liveAtCall[c]) => pc[c] # "raised"

\* C7: the pool stops accepting submissions only when shutdown() is called,
\* never as a side effect of fetch or fetch_all.
PoolClosedOnlyByShutdown == shutdownFlag => shutdownCalled

\* C8: after shutdown() has returned, every fetch and fetch_all call, the
\* empty list included, ends with an error and never returns a result.
CallsAfterShutdownFail ==
    \A c \in Callers :
        (afterShutdown[c] /\ op[c] \in {"fetch", "fetch_all"})
            => pc[c] # "returned"

\* C9: once a shutdown() call has returned the fetcher is shut down, and any
\* further shutdown() call leaves it so and does not fault.
ShutdownIdempotent ==
    /\ shutdownDone => (shutdownFlag /\ ~sessionOpen /\ queue = <<>> /\ running = {})
    /\ \A c \in Callers : op[c] = "shutdown" => (raised[c] = "" /\ pc[c] # "raised")

\* C9 witness: a second shutdown() call has returned.
ShutdownTwiceReturned ==
    /\ closeCount = 2
    /\ \E c \in Callers : op[c] = "shutdown" /\ pc[c] = "returned" /\ afterShutdown[c]

\* C10: shutdown first stops submissions, then waits for the queued and
\* in-flight requests, and only then closes the session: the session is
\* never closed while an accepted request is queued or in flight.
CloseAfterDrain ==
    /\ \A c \in Callers :
        /\ pc[c] \in {"sd_join", "sd_close"} => shutdownFlag
        /\ pc[c] = "sd_close" =>
            (queue = <<>> /\ running = {}
                /\ \A r \in 1..Len(reqs) : reqs[r].state = "done")
    /\ ~sessionOpen =>
        (shutdownFlag /\ queue = <<>> /\ running = {}
            /\ \A r \in 1..Len(reqs) : reqs[r].state = "done")

\* C10 witness: the session was closed by a shutdown() that ran while a
\* fetch_all of another thread had submitted requests.
ClosedBesideFetchAll ==
    \E c1, c2 \in Callers :
        /\ c1 # c2
        /\ op[c1] = "shutdown" /\ pc[c1] = "returned"
        /\ ~sessionOpen
        /\ op[c2] = "fetch_all" /\ pc[c2] \in {"collect", "join"}
        /\ futures[c2] # <<>>

\* C11: the session is released exactly once over the fetcher's lifetime, by
\* shutdown() and by nothing else, and not again by a repeated shutdown().
SessionReleasedOnce ==
    /\ closeCount <= 1
    /\ ~sessionOpen => shutdownCalled

\* C12: with max_workers <= 0 construction fails: there is no fetcher, and no
\* call is ever made on it and no request ever submitted.
NoFetcherWithoutWorkers ==
    max_workers <= 0 =>
        /\ ~constructed
        /\ calls = 0
        /\ reqs = <<>> /\ queue = <<>> /\ running = {}
        /\ \A c \in Callers : pc[c] = "idle"

\* C12 witness: the constructor was given no workers and produced nothing.
ConstructionRefused == max_workers <= 0 /\ ~constructed

\* A fetch_all call on a live pool whose urls argument is the empty list.
EmptyBatch(c) ==
    /\ op[c] = "fetch_all"
    /\ liveAtCall[c]
    /\ urls[c] = <<>>
    /\ raised[c] = ""

\* C13: fetch_all([]) on a fetcher that is not shut down submits nothing and
\* returns the empty list.
EmptyBatchReturnsEmpty ==
    \A c \in Callers :
        EmptyBatch(c) =>
            /\ pc[c] \in {"collect", "join", "returned"}
            /\ futures[c] = <<>> /\ pending[c] = {}
            /\ results[c] = <<>> /\ collected[c] = <<>> /\ diag[c] = <<>>

\* C13 witness: such a call has returned while no future exists at all.
EmptyBatchReturned ==
    \E c \in Callers :
        EmptyBatch(c) /\ pc[c] = "returned" /\ results[c] = <<>> /\ reqs = <<>>

\* C14: every fetch_all call returns (with fair workers and a transport that
\* answers); stated for runs without any shutdown() call, a call that has
\* ended has returned its results and has not raised.
FetchAllAlwaysReturns ==
    \A c \in Callers :
        (op[c] = "fetch_all" /\ ~shutdownCalled) => pc[c] # "raised"

\* C15: when control leaves fetch, the request it submitted has completed.
FetchHoldsUntilDone ==
    \A c \in Callers :
        (op[c] = "fetch" /\ pc[c] \in {"returned", "raised"}) =>
            \A r \in Futures(c) : reqs[r].state = "done"

\* The URLs of the entries of rs[1..k] that are None, in order.
RECURSIVE AbsentUrls(_, _, _)
AbsentUrls(c, rs, k) ==
    IF k = 0 THEN <<>>
    ELSE LET rest == AbsentUrls(c, rs, k - 1) IN
         IF rs[k].isNone THEN Append(rest, reqs[collected[c][k]].url) ELSE rest

RaisedCallLeftNoRequest ==
    \A c \in Callers :
        (op[c] \in {"fetch", "fetch_all"} /\ pc[c] = "raised") =>
            futures[c] = <<>>

\* The futures of caller c's call in the order they completed.
CompletionOrder(c) == finished[c]

\* The index-aligned outcome list of caller c's call.
Aligned(c) == [i \in 1..Len(futures[c]) |-> ResultOf(futures[c][i])]

\* C17 as stated: the k-th element of the returned list is the outcome of
\* the k-th request to complete, and the list equals the index-aligned list
\* only when the requests completed in input order.
ResultsInCompletionOrder ==
    \A c \in Callers :
        Returned(c) =>
            /\ Len(results[c]) = Len(CompletionOrder(c))
            /\ \A k \in 1..Len(results[c]) :
                results[c][k] = ResultOf(CompletionOrder(c)[k])
            /\ results[c] = Aligned(c) => CompletionOrder(c) = futures[c]

\* C17 amended: the k-th element of the returned list is the outcome of the
\* k-th future as_completed yields; a future is yielded only once it is
\* complete, but futures that are complete at the same moment are yielded in
\* no particular order. The list is a permutation of the index-aligned list
\* and equals it whenever the futures were yielded in input order.
ResultsInYieldOrder ==
    \A c \in Callers :
        op[c] = "fetch_all" =>
            /\ Len(results[c]) = Len(collected[c])
            /\ \A k \in 1..Len(collected[c]) :
                /\ collected[c][k] \in Futures(c)
                /\ reqs[collected[c][k]].state = "done"
                /\ results[c][k] = ResultOf(collected[c][k])
                /\ \A j \in 1..Len(collected[c]) :
                    collected[c][j] = collected[c][k] => j = k
            /\ Returned(c) =>
                /\ Len(collected[c]) = Len(futures[c])
                /\ collected[c] = futures[c] => results[c] = Aligned(c)

\* C17 witness: a returned list that differs from the index-aligned list.
ReturnedOutOfInputOrder ==
    \E c \in Callers :
        /\ Returned(c)
        /\ Len(results[c]) = 2
        /\ results[c] # Aligned(c)
        /\ collected[c] = <<futures[c][2], futures[c][1]>>


\* C18: the script launches at most one process, and exits with status zero
\* exactly when that process was launched and exited with status zero before
\* the timeout; with an empty title nothing is launched and the status is
\* not zero.
ExitZeroIffAgentSucceeded ==
    /\ orch.launched <= 1
    /\ orch.title = "" => orch.launched = 0
    /\ orch.pc = "exited" =>
        /\ orch.exitStatus \in {0, 1}
        /\ orch.exitStatus = 0 <=>
            (orch.launched = 1 /\ orch.childRc = 0 /\ orch.elapsed < AgentTimeout)

\* C18 witness: a run that ended with status zero, and the runs that do not.
OrchExitedZero ==
    /\ orch.pc = "exited"
    /\ orch.exitStatus = 0
    /\ orch.launched = 1
    /\ orch.elapsed > 0

====
